---- MODULE Spec2Model ----
(***************************************************************************)
(* A model of the RPC2 transport client (src/src/lib/rpc2.ts): one         *)
(* RPC2Client, the WebSocket objects it creates, the timers it schedules   *)
(* and the call() invocations of its consumers, run on one event loop.     *)
(* Every action is one event-loop task: a public method called by a        *)
(* consumer, a timer callback, or a socket event with the promise          *)
(* continuations (microtasks) it releases.                                 *)
(*                                                                         *)
(* Two specifications share the actions and differ in how many sockets     *)
(* and calls a run may use: SpecConn follows the connection through        *)
(* several sockets, SpecCall follows several calls.  SpecShared adds the   *)
(* access point (SharedClient and RPC2Provider), SpecReconcile the roster  *)
(* reconciler of src/src/lib/utils.ts with its roster fetches.             *)
(***************************************************************************)
EXTENDS Integers, FiniteSets, Sequences, TLC

\* ------------------------------------------------------------------ bounds
\* sockets a run of SpecConn constructs
ConnSockets == 3
\* sockets a run of SpecCall constructs, and calls it makes
CallSockets == 1
CallCalls == 2
\* options.maxReconnectAttempts, a configuration value (5 by default)
MaxReconnectAttempts == 2
\* providers that may be mounted at one time, and sockets a run of SpecShared constructs
SharedProviders == 2
SharedSockets == 2
ReconcileSockets == 1
ReconcileFetches == 2
FetchRoster == 1
FetchLive == 1
MaxRoster == 2
MaxLive == 2
\* requests of one batchCall, and responses the server answers it with
\* nodes of a roster and keys of a live feed whose uuids are long enough for
\* the hash to pass 2^32
HashRoster == 1
HashLive == 2
MaxBatch == 2
MaxResponses == 3

\* ------------------------------------------------------- program constants
OptAutoConnect == TRUE
OptEnableHeartbeat == TRUE

Max(a, b) == IF a > b THEN a ELSE b
Min(a, b) == IF a < b THEN a ELSE b

Sockets == 1..Max(Max(ConnSockets, CallSockets), Max(SharedSockets, ReconcileSockets))
Providers == 1..SharedProviders
Calls == 1..Max(CallCalls, ReconcileFetches)
\* every call draws at most two request ids (duplex attempt, HTTP fallback)
MaxId == 2 * Max(CallCalls, ReconcileFetches)
Ids == 1..MaxId
NoSocket == 0
NoClient == 0

VARIABLES
    connectionState,   \* RPC2Client.connectionState
    ws,                \* RPC2Client.ws: a socket, or NoSocket for null
    readyState,        \* WebSocket.readyState of every socket ("NEW": not constructed yet)
    connectWait,       \* socket -> the listeners and the 10 s timer of connect()'s promise are armed
    closeDue,          \* the socket whose error event has fired and whose close event ends the task
    autoReconnect,     \* options.autoReconnect
    reconnectAttempts, \* RPC2Client.reconnectAttempts
    reconnectTimeout,  \* the handle: "undefined", "live" (its timer is scheduled) or "stale"
    reconnectTimers,   \* number of scheduled reconnect timers, referenced by the handle or not
    heartbeatInterval, \* the handle is set
    heartbeatTimers,   \* number of running heartbeat intervals
    requestId,         \* RPC2Client.requestId
    pendingRequests,   \* keys of the correlation table
    requestTimers,     \* ids whose request-timeout timer is scheduled
    settled,           \* id -> how often the stored resolve/reject of its PendingCall was invoked (2: more than once)
    settledAs,         \* history: what the task that just ran passed to the stored resolve/reject it invoked:
                       \*          "result", "error", "timeout", "closed", or "none" if it invoked none
    calls,             \* the call() invocations
    budget,            \* the sockets and calls this run may use
    batch,             \* the batchCall() invocation
    ticked,            \* history: pings sent by the task that just ran, -1 unless it was a heartbeat tick
    rpc2_singleton,    \* __rpc2_singleton__: the instance (numbered by construction), or NoClient for null
    rpc2_refcount,     \* __rpc2_refcount
    constructed,       \* history: how often the RPC2Client constructor has run (2: more than once)
    provider,          \* RPC2Provider -> "none", "rendered" (useState has run) or "mounted" (the effect has run)
    held,              \* RPC2Provider -> the instance its useState holds
    obtained,          \* history: the instances SharedClient() and the providers were handed
    km_servers_cache,  \* km_servers_cache: the roster entries in cache order
    fetches,           \* the call() invocations that are roster fetches ("common:getNodes")
    nodes,             \* the object the server answers a roster fetch with
    data,              \* history: the argument of the latest komariToNezhaWebsocketResponse
    used,              \* history: km_servers_cache as that call found it
    view,              \* history: the servers that call returned
    returned           \* history: a komariToNezhaWebsocketResponse has returned

vars == <<connectionState, ws, readyState, connectWait, closeDue, autoReconnect,
          reconnectAttempts, reconnectTimeout, reconnectTimers, heartbeatInterval,
          heartbeatTimers, requestId, pendingRequests, requestTimers, settled,
          settledAs, calls, batch, budget, ticked,
          rpc2_singleton, rpc2_refcount, constructed, provider, held, obtained,
          km_servers_cache, fetches, nodes, data, used, view, returned>>

\* the state of the access point
sharedVars == <<rpc2_singleton, rpc2_refcount, constructed, provider, held, obtained>>

\* the state of the roster reconciler
reconcilerVars == <<km_servers_cache, fetches, nodes, data, used, view, returned>>

\* The client, its sockets and its callers as one value, so that a method can
\* be applied to the result of another.
Cur ==
    [connectionState |-> connectionState, ws |-> ws, readyState |-> readyState,
     connectWait |-> connectWait, closeDue |-> closeDue, autoReconnect |-> autoReconnect,
     reconnectAttempts |-> reconnectAttempts, reconnectTimeout |-> reconnectTimeout,
     reconnectTimers |-> reconnectTimers, heartbeatInterval |-> heartbeatInterval,
     heartbeatTimers |-> heartbeatTimers, requestId |-> requestId,
     pendingRequests |-> pendingRequests, requestTimers |-> requestTimers,
     settled |-> settled, settledAs |-> "none", calls |-> calls, batch |-> batch,
     budget |-> budget]

\* a task that is no heartbeat tick
NoTick == 0 - 1

CommitClient(c, pings) ==
    /\ connectionState' = c.connectionState
    /\ ws' = c.ws
    /\ readyState' = c.readyState
    /\ connectWait' = c.connectWait
    /\ closeDue' = c.closeDue
    /\ autoReconnect' = c.autoReconnect
    /\ reconnectAttempts' = c.reconnectAttempts
    /\ reconnectTimeout' = c.reconnectTimeout
    /\ reconnectTimers' = c.reconnectTimers
    /\ heartbeatInterval' = c.heartbeatInterval
    /\ heartbeatTimers' = c.heartbeatTimers
    /\ requestId' = c.requestId
    /\ pendingRequests' = c.pendingRequests
    /\ requestTimers' = c.requestTimers
    /\ settled' = c.settled
    /\ settledAs' = c.settledAs
    /\ calls' = c.calls
    /\ batch' = c.batch
    /\ budget' = c.budget
    /\ ticked' = pings

\* a JavaScript object: its own keys in property order and their values
EmptyObject == [keys |-> <<>>, get |-> <<>>]

ObjectValues(o) == [i \in 1..Len(o.keys) |-> o.get[i]]

ObjectEntries(o) == [i \in 1..Len(o.keys) |-> <<o.keys[i], o.get[i]>>]

\* the roster fetches that the task leading to c fulfils
\* the roster fetches a task settles, rejected ones included
FulfilledOrRejected(c) ==
    {k \in fetches : calls[k].pc # "done" /\ c.calls[k].pc = "done"}

Fulfilled(c) ==
    {k \in fetches : /\ calls[k].pc # "done"
                     /\ c.calls[k].pc = "done"
                     /\ c.calls[k].outcome \in {"ws_result", "http_ok"}}

\* a handler that caches an answer whether or not a roster fetch is fulfilled
getNodesThenAtOnce(cache, res, fulfilled) == ObjectValues(res)

\* the cache after the handler that komariToNezhaWebsocketResponse attached
\* with then() to a roster fetch: it runs once that fetch is fulfilled
getNodesThen(cache, res, fulfilled) == IF fulfilled THEN ObjectValues(res) ELSE cache

\* the continuations of the roster fetches a task of the client releases
getNodesSettled(c) ==
    /\ IF Fulfilled(c) # {}
       THEN \E res \in {nodes, EmptyObject} :
                km_servers_cache' = getNodesThen(km_servers_cache, res, TRUE)
       ELSE km_servers_cache' = getNodesThen(km_servers_cache, nodes, FALSE)
    /\ UNCHANGED <<fetches, nodes, data, used, view, returned>>

\* a task of the client, with the continuations it releases
Commit(c, pings) ==
    /\ CommitClient(c, pings)
    /\ UNCHANGED sharedVars
    /\ getNodesSettled(c)

IdleCall ==
    [pc |-> "idle", notification |-> FALSE, wsId |-> 0, wsAttempts |-> 0,
     httpAttempts |-> 0, httpResult |-> "none", outcome |-> "none"]

\* a batchCall() that has not been made: requests is its argument, sent the
\* batchRequest it posted, posts the fetches it made, jsonResponse the body of
\* the answer
IdleBatch ==
    [pc |-> "idle", requests |-> <<>>, sent |-> <<>>, posts |-> 0, jsonResponse |-> <<>>,
     outcome |-> "none", results |-> <<>>, error |-> 0]

\* ------------------------------------------------------------- the client

setConnectionState(c, state) == [c EXCEPT !.connectionState = state]

generateRequestId(c) == [c EXCEPT !.requestId = @ + 1]

FreeSockets(c) == {s \in 1..c.budget.sockets : c.readyState[s] = "NEW"}

\* new WebSocket(wsUrl): the next socket object
NewSocket(c) == CHOOSE s \in FreeSockets(c) : \A t \in FreeSockets(c) : s <= t

\* connect(), up to its await
connect(c) ==
    IF c.connectionState \in {"connected", "connecting"}
    THEN c
    ELSE LET s == NewSocket(c)
         IN  [setConnectionState(c, "connecting") EXCEPT
                 !.ws = s, !.readyState[s] = "CONNECTING", !.connectWait[s] = TRUE]

\* connect() needs a socket the model still has
ConnectFits(c) == c.connectionState \in {"connected", "connecting"} \/ FreeSockets(c) # {}

autoConnect(c) == IF c.connectionState # "disconnected" THEN c ELSE connect(c)

stopHeartbeat(c) ==
    IF c.heartbeatInterval
    THEN [c EXCEPT !.heartbeatTimers = @ - 1, !.heartbeatInterval = FALSE]
    ELSE c

\* a startHeartbeat that does not clear the previous interval
startHeartbeatAgain(c) ==
    IF ~OptEnableHeartbeat
    THEN c
    ELSE [c EXCEPT !.heartbeatTimers = @ + 1, !.heartbeatInterval = TRUE]

startHeartbeat(c) ==
    IF ~OptEnableHeartbeat
    THEN c
    ELSE [stopHeartbeat(c) EXCEPT !.heartbeatTimers = @ + 1, !.heartbeatInterval = TRUE]

\* the pings one tick of the heartbeat period sends: one per running interval
heartbeatPings(c) ==
    IF c.ws # NoSocket /\ c.readyState[c.ws] = "OPEN" THEN c.heartbeatTimers ELSE 0

attemptReconnect(c) ==
    [setConnectionState(c, "reconnecting") EXCEPT
        !.reconnectAttempts = @ + 1,
        !.reconnectTimers = @ + 1,
        !.reconnectTimeout = "live"]

shouldReconnect(c) == c.autoReconnect /\ c.reconnectAttempts < MaxReconnectAttempts

\* an onopen that keeps the attempt counter
onopenKeep(c) == startHeartbeat(setConnectionState(c, "connected"))

onopen(c) ==
    startHeartbeat([setConnectionState(c, "connected") EXCEPT !.reconnectAttempts = 0])

onclose(c) ==
    LET c1 == stopHeartbeat(setConnectionState(c, "disconnected"))
    IN  IF shouldReconnect(c1) THEN attemptReconnect(c1) ELSE c1

\* WebSocket.close()
wsClose(rs) == IF rs \in {"CONNECTING", "OPEN"} THEN "CLOSING" ELSE rs

\* sendMessage's guard: it throws unless the current socket is open
canSend(c) == c.ws # NoSocket /\ c.readyState[c.ws] = "OPEN"

\* ------------------------------------------------------------------ call()

\* callViaHTTP, up to its await of fetch
callViaHTTP(c, k) ==
    LET c1 == IF c.calls[k].notification THEN c ELSE generateRequestId(c)
    IN  [c1 EXCEPT !.calls[k].pc = "http", !.calls[k].wsId = 0,
                   !.calls[k].httpAttempts = @ + 1]

\* a call() that rethrows the failure of the duplex attempt
callCatchRethrow(c, k) ==
    [c EXCEPT !.calls[k].pc = "done", !.calls[k].wsId = 0, !.calls[k].outcome = "ws_err"]

\* call()'s catch of a failed duplex attempt
callCatch(c, k) == callViaHTTP(c, k)

\* a call() whose inner catch throws wsErr in place of httpErr
callSurfaceFirst(cr, r) ==
    IF r = "ok" THEN "http_ok" ELSE IF cr.wsAttempts > 0 THEN "ws_err" ELSE "http_err"

\* what call() hands its caller once callViaHTTP has settled with r
callSurface(cr, r) == IF r = "ok" THEN "http_ok" ELSE "http_err"

\* the continuation of callViaHTTP's fetch: r is "ok" for a 2xx answer without an
\* error member, "err" for everything callViaHTTP throws
httpSettled(c, k, r) ==
    [c EXCEPT !.calls[k].pc = "done",
              !.calls[k].httpResult = r,
              !.calls[k].outcome = callSurface(c.calls[k], r)]

\* a callViaWebSocket that draws an id and registers a PendingCall for a notification too
callViaWebSocketAlways(c, k) ==
    LET c0 == [c EXCEPT !.calls[k].wsAttempts = @ + 1]
    IN  IF c0.connectionState # "connected"
        THEN callCatch(c0, k)
        ELSE LET c1 == generateRequestId(c0)
                 id == c1.requestId
                 c2 == [c1 EXCEPT !.requestTimers = @ \cup {id},
                                  !.pendingRequests = @ \cup {id},
                                  !.calls[k].wsId = id]
             IN  IF canSend(c2)
                 THEN [c2 EXCEPT !.calls[k].pc = "ws_wait"]
                 ELSE callCatch(c2, k)

\* callViaWebSocket, called by call(), with the continuation of a synchronous throw
callViaWebSocket(c, k) ==
    LET c0 == [c EXCEPT !.calls[k].wsAttempts = @ + 1]
    IN  IF c0.connectionState # "connected"
        THEN callCatch(c0, k)
        ELSE IF c0.calls[k].notification
        THEN IF canSend(c0)
             THEN [c0 EXCEPT !.calls[k].pc = "done", !.calls[k].outcome = "ws_undefined"]
             ELSE callCatch(c0, k)
        ELSE LET c1 == generateRequestId(c0)
                 id == c1.requestId
                 c2 == [c1 EXCEPT !.requestTimers = @ \cup {id},
                                  !.pendingRequests = @ \cup {id},
                                  !.calls[k].wsId = id]
             IN  IF canSend(c2)
                 THEN [c2 EXCEPT !.calls[k].pc = "ws_wait"]
                 ELSE callCatch(c2, k)

\* the dispatch of call(): duplex only when connected
useWebSocket(c) == c.connectionState = "connected"

call(c, k, notification) ==
    LET c0 == [c EXCEPT !.calls[k].notification = notification]
        c1 == IF OptAutoConnect /\ c0.connectionState = "disconnected"
              THEN autoConnect(c0)
              ELSE c0
    IN  IF useWebSocket(c1) THEN callViaWebSocket(c1, k) ELSE callViaHTTP(c1, k)

\* the call, if any, that awaits the promise of PendingCall id
Awaiting(c, id) == {k \in Calls : c.calls[k].pc = "ws_wait" /\ c.calls[k].wsId = id}

\* a call() that falls back on a failed send alone and hands an error response
\* or a timeout to its caller
settleDirect(c, id, kind) ==
    LET c1 == [c EXCEPT !.settled[id] = Min(@ + 1, 2), !.settledAs = kind]
    IN  IF Awaiting(c, id) = {}
        THEN c1
        ELSE LET k == CHOOSE k \in Awaiting(c, id) : TRUE
             IN  IF kind = "result"
                 THEN [c1 EXCEPT !.calls[k].pc = "done", !.calls[k].outcome = "ws_result"]
                 ELSE IF kind \in {"error", "timeout"}
                 THEN [c1 EXCEPT !.calls[k].pc = "done", !.calls[k].wsId = 0,
                                 !.calls[k].outcome = "ws_err"]
                 ELSE callCatch(c1, k)

\* pending.resolve / pending.reject of PendingCall id, with the continuation in call()
settle(c, id, kind) ==
    LET c1 == [c EXCEPT !.settled[id] = Min(@ + 1, 2), !.settledAs = kind]
    IN  IF Awaiting(c, id) = {}
        THEN c1
        ELSE LET k == CHOOSE k \in Awaiting(c, id) : TRUE
             IN  IF kind = "result"
                 THEN [c1 EXCEPT !.calls[k].pc = "done", !.calls[k].outcome = "ws_result"]
                 ELSE callCatch(c1, k)

\* a handleMessage that leaves the matched entry in the table
takePendingKept(c, id) == c

\* handleMessage's removal of the matched entry and of its timer
takePending(c, id) ==
    [c EXCEPT !.pendingRequests = @ \ {id}, !.requestTimers = @ \ {id}]

\* handleMessage(data): id = 0 stands for a message without id
handleMessage(c, id, isError) ==
    IF id = 0 \/ id \notin c.pendingRequests
    THEN c
    ELSE settle(takePending(c, id), id, IF isError THEN "error" ELSE "result")

\* a timeout callback that rejects and leaves the entry in the table
requestTimeoutKept(c, id) ==
    settle([c EXCEPT !.requestTimers = @ \ {id}], id, "timeout")

\* a timeout callback that empties the table and closes the socket
requestTimeoutAll(c, id) ==
    settle([c EXCEPT !.requestTimers = {}, !.pendingRequests = {},
                     !.readyState = [s \in Sockets |-> IF s = c.ws THEN "CLOSING" ELSE @[s]]],
           id, "timeout")

\* the request-timeout callback of callViaWebSocket
requestTimeout(c, id) ==
    settle([c EXCEPT !.requestTimers = @ \ {id}, !.pendingRequests = @ \ {id}], id, "timeout")

\* clearPendingRequests' loop body for one entry
clearOne(c, id) == settle([c EXCEPT !.requestTimers = @ \ {id}], id, "closed")

RECURSIVE rejectAll(_, _)
rejectAll(c, ids) ==
    IF ids = {}
    THEN c
    ELSE LET id == CHOOSE i \in ids : \A j \in ids : i <= j
         IN  rejectAll(clearOne(c, id), ids \ {id})

\* a clearPendingRequests that empties the table without a look at its entries
clearPendingRequestsOnly(c) == [c EXCEPT !.pendingRequests = {}]

clearPendingRequests(c) ==
    [rejectAll(c, c.pendingRequests) EXCEPT !.pendingRequests = {}]

\* clearTimeout(this.reconnectTimeout) of disconnect()
clearReconnectTimeout(c) ==
    IF c.reconnectTimeout = "undefined"
    THEN c
    ELSE [c EXCEPT !.reconnectTimers = IF c.reconnectTimeout = "live" THEN @ - 1 ELSE @,
                   !.reconnectTimeout = "undefined"]

\* a disconnect() that leaves the reconnection policy as it was
disconnectKeepPolicy(c) ==
    LET c1 == clearReconnectTimeout(c)
        c2 == stopHeartbeat(c1)
        c3 == IF c2.ws # NoSocket
              THEN [c2 EXCEPT !.readyState[c2.ws] = wsClose(@), !.ws = NoSocket]
              ELSE c2
    IN  clearPendingRequests(setConnectionState(c3, "disconnected"))

disconnect(c) ==
    LET c1 == clearReconnectTimeout([c EXCEPT !.autoReconnect = FALSE])
        c2 == stopHeartbeat(c1)
        c3 == IF c2.ws # NoSocket
              THEN [c2 EXCEPT !.readyState[c2.ws] = wsClose(@), !.ws = NoSocket]
              ELSE c2
    IN  clearPendingRequests(setConnectionState(c3, "disconnected"))

\* ----------------------------------------------------------------- actions

\* no socket is between its error event and its close event
Idle == closeDue = NoSocket

\* the fields of an RPC2Client as their initialisers leave them
Fresh(nSockets, nCalls) ==
    [connectionState |-> "disconnected", ws |-> NoSocket,
     readyState |-> [s \in Sockets |-> "NEW"],
     connectWait |-> [s \in Sockets |-> FALSE], closeDue |-> NoSocket,
     autoReconnect |-> TRUE, reconnectAttempts |-> 0,
     reconnectTimeout |-> "undefined", reconnectTimers |-> 0,
     heartbeatInterval |-> FALSE, heartbeatTimers |-> 0, requestId |-> 0,
     pendingRequests |-> {}, requestTimers |-> {},
     settled |-> [i \in Ids |-> 0], settledAs |-> "none",
     calls |-> [k \in Calls |-> IdleCall], batch |-> IdleBatch,
     budget |-> [sockets |-> nSockets, calls |-> nCalls]]

\* new RPC2Client(endpoint, { autoConnect: true })
construct(c0) == IF OptAutoConnect THEN autoConnect(c0) ELSE c0

\* the client is c and no task has run
Starts(c1) ==
    /\ connectionState = c1.connectionState
    /\ ws = c1.ws
    /\ readyState = c1.readyState
    /\ connectWait = c1.connectWait
    /\ closeDue = c1.closeDue
    /\ autoReconnect = c1.autoReconnect
    /\ reconnectAttempts = c1.reconnectAttempts
    /\ reconnectTimeout = c1.reconnectTimeout
    /\ reconnectTimers = c1.reconnectTimers
    /\ heartbeatInterval = c1.heartbeatInterval
    /\ heartbeatTimers = c1.heartbeatTimers
    /\ requestId = c1.requestId
    /\ pendingRequests = c1.pendingRequests
    /\ requestTimers = c1.requestTimers
    /\ settled = c1.settled
    /\ settledAs = c1.settledAs
    /\ calls = c1.calls
    /\ batch = c1.batch
    /\ budget = c1.budget
    /\ ticked = NoTick

\* the module of the access point as its load leaves it
SharedLoaded ==
    /\ rpc2_singleton = NoClient
    /\ rpc2_refcount = 0
    /\ constructed = 0
    /\ provider = [p \in Providers |-> "none"]
    /\ held = [p \in Providers |-> NoClient]
    /\ obtained = {}
    /\ km_servers_cache = <<>>
    /\ fetches = {}
    /\ data = EmptyObject
    /\ used = <<>>
    /\ view = <<>>
    /\ returned = FALSE

\* the state after new RPC2Client(endpoint, { autoConnect: true })
Constructed(nSockets, nCalls) ==
    /\ Starts(construct(Fresh(nSockets, nCalls)))
    /\ SharedLoaded
    /\ nodes = EmptyObject

InitConn == Constructed(ConnSockets, 0)

InitCall == Constructed(CallSockets, CallCalls)

\* a consumer calls connect()
Connect ==
    /\ Idle
    /\ ConnectFits(Cur)
    /\ Commit(connect(Cur), NoTick)

\* a consumer calls disconnect()
Disconnect ==
    /\ Idle
    /\ Commit(disconnect(Cur), NoTick)

\* a consumer calls call(); the calls are numbered in the order they are made
Call(k, notification) ==
    /\ Idle
    /\ k <= budget.calls
    /\ calls[k].pc = "idle"
    /\ \A j \in Calls : j < k => calls[j].pc # "idle"
    /\ connectionState = "disconnected" => ConnectFits(Cur)
    /\ Commit(call(Cur, k, notification), NoTick)

\* the fetch of callViaHTTP settles
HttpDone(k, r) ==
    /\ Idle
    /\ calls[k].pc = "http"
    /\ Commit(httpSettled(Cur, k, r), NoTick)

\* socket s opens: ws.onopen, then handleOpen of connect()'s promise
SocketOpen(s) ==
    /\ Idle
    /\ readyState[s] = "CONNECTING"
    /\ Commit([onopen([Cur EXCEPT !.readyState[s] = "OPEN"]) EXCEPT !.connectWait[s] = FALSE],
              NoTick)

\* the closing handshake of an open socket starts at the server's request
SocketClosing(s) ==
    /\ Idle
    /\ readyState[s] = "OPEN"
    /\ Commit([Cur EXCEPT !.readyState[s] = "CLOSING"], NoTick)

\* a socket that never opened fails or is closed: its error event reaches
\* handleError of connect()'s promise, whose rejection connect() catches
SocketError(s) ==
    /\ Idle
    /\ readyState[s] \in {"CONNECTING", "CLOSING"}
    /\ connectWait[s]
    /\ Commit([setConnectionState(Cur, "error") EXCEPT
                  !.readyState[s] = "CLOSED", !.connectWait[s] = FALSE, !.closeDue = s],
              NoTick)

\* the close event of socket s: ws.onclose
SocketClose(s) ==
    /\ \/ closeDue = s
       \/ Idle /\ readyState[s] \in {"CONNECTING", "OPEN", "CLOSING"} /\ ~connectWait[s]
    /\ Commit(onclose([Cur EXCEPT !.readyState[s] = "CLOSED", !.closeDue = NoSocket]), NoTick)

\* the 10 s timer of connect()'s promise fires: connect() catches the rejection
ConnectTimeout(s) ==
    /\ Idle
    /\ connectWait[s]
    /\ Commit([setConnectionState(Cur, "error") EXCEPT !.connectWait[s] = FALSE], NoTick)

\* a message event of an open socket: ws.onmessage
SocketMessage(s, id, isError) ==
    /\ Idle
    /\ readyState[s] = "OPEN"
    /\ Commit(handleMessage(Cur, id, isError), NoTick)

\* the timeout timer of PendingCall id fires
RequestTimeout(id) ==
    /\ Idle
    /\ id \in requestTimers
    /\ Commit(requestTimeout(Cur, id), NoTick)

\* a scheduled reconnect timer fires: the one the handle names, or another one
ReconnectTimer(named) ==
    /\ Idle
    /\ IF named
       THEN reconnectTimeout = "live"
       ELSE reconnectTimers > (IF reconnectTimeout = "live" THEN 1 ELSE 0)
    /\ ConnectFits(Cur)
    /\ Commit(connect([Cur EXCEPT !.reconnectTimers = @ - 1,
                                  !.reconnectTimeout = IF named THEN "stale" ELSE @]),
              NoTick)

\* one heartbeat period elapses: every running interval ticks
HeartbeatTick ==
    /\ Idle
    /\ heartbeatTimers > 0
    /\ Commit(Cur, heartbeatPings(Cur))

\* the connection: call() touches it only through autoConnect(), which is
\* connect() in state "disconnected", a case of Connect
NextConn ==
    \/ Connect
    \/ Disconnect
    \/ \E s \in Sockets : SocketOpen(s)
    \/ \E s \in Sockets : SocketClosing(s)
    \/ \E s \in Sockets : SocketError(s)
    \/ \E s \in Sockets : SocketClose(s)
    \/ \E s \in Sockets : ConnectTimeout(s)
    \/ \E named \in BOOLEAN : ReconnectTimer(named)
    \/ HeartbeatTick

\* the calls: a heartbeat tick changes nothing of the client or of its calls,
\* and the callback of a reconnect timer is connect(), a case of Connect
NextCall ==
    \/ Connect
    \/ Disconnect
    \/ \E k \in Calls, notification \in BOOLEAN : Call(k, notification)
    \/ \E k \in Calls, r \in {"ok", "err"} : HttpDone(k, r)
    \/ \E s \in Sockets : SocketOpen(s)
    \/ \E s \in Sockets : SocketClosing(s)
    \/ \E s \in Sockets : SocketError(s)
    \/ \E s \in Sockets : SocketClose(s)
    \/ \E s \in Sockets : ConnectTimeout(s)
    \/ \E s \in Sockets, id \in 0..MaxId, isError \in BOOLEAN : SocketMessage(s, id, isError)
    \/ \E id \in Ids : RequestTimeout(id)

SpecConn == InitConn /\ [][NextConn]_vars

SpecCall == InitCall /\ [][NextCall]_vars

\* the close event that follows the error event of a failed socket
CloseAfterError == \E s \in Sockets : closeDue = s /\ SocketClose(s)

\* A socket that has failed delivers its close event, and the event loop runs
\* every timer that is due.
ErrorsClose == WF_vars(CloseAfterError)

ReconnectTimersFire == WF_vars(ReconnectTimer(TRUE)) /\ WF_vars(ReconnectTimer(FALSE))

RequestTimersFire == \A id \in Ids : WF_vars(RequestTimeout(id))

\* A socket that is opening does not do so for ever: it opens or it fails.
SocketsResolve ==
    \A s \in Sockets :
        WF_vars(readyState[s] = "CONNECTING" /\ (SocketOpen(s) \/ SocketError(s) \/ SocketClose(s)))

SpecConnLive == SpecConn /\ ErrorsClose /\ ReconnectTimersFire /\ SocketsResolve

SpecCallLive == SpecCall /\ ErrorsClose /\ RequestTimersFire

\* ------------------------------------------------------- the access point

CurShared == [singleton |-> rpc2_singleton, constructed |-> constructed]

\* a SharedClient without the test of the singleton
getSingletonAnew(sh) ==
    [singleton |-> Min(sh.constructed + 1, 2), constructed |-> Min(sh.constructed + 1, 2)]

\* the body of SharedClient and of the initialiser of the provider's useState
getSingleton(sh) ==
    IF sh.singleton = NoClient
    THEN [singleton |-> Min(sh.constructed + 1, 2), constructed |-> Min(sh.constructed + 1, 2)]
    ELSE sh

\* the cleanup of the provider's effect, up to its test of the count
effectCleanup(n) == Max(0, n - 1)

\* the client after the access point has come to sh: constructed if sh holds a new instance
Build(sh) ==
    IF sh.singleton # rpc2_singleton
    THEN CommitClient(construct(Fresh(budget.sockets, budget.calls)), NoTick)
    ELSE CommitClient(Cur, NoTick)

InitShared ==
    /\ Starts(Fresh(SharedSockets, 0))
    /\ SharedLoaded
    /\ nodes = EmptyObject

\* some module calls SharedClient()
SharedClientCall ==
    /\ Idle
    /\ LET sh == getSingleton(CurShared)
       IN  /\ rpc2_singleton' = sh.singleton
           /\ constructed' = sh.constructed
           /\ obtained' = obtained \cup {sh.singleton}
           /\ Build(sh)
    /\ UNCHANGED <<rpc2_refcount, provider, held>>
    /\ UNCHANGED reconcilerVars

\* React renders provider p for the first time: the initialiser of its useState runs
Render(p) ==
    /\ Idle
    /\ provider[p] = "none"
    /\ LET sh == getSingleton(CurShared)
       IN  /\ rpc2_singleton' = sh.singleton
           /\ constructed' = sh.constructed
           /\ obtained' = obtained \cup {sh.singleton}
           /\ held' = [held EXCEPT ![p] = sh.singleton]
           /\ Build(sh)
    /\ provider' = [provider EXCEPT ![p] = "rendered"]
    /\ UNCHANGED rpc2_refcount
    /\ UNCHANGED reconcilerVars

\* React runs the effect of provider p, after its first render or after a cleanup
Mount(p) ==
    /\ Idle
    /\ provider[p] = "rendered"
    /\ rpc2_refcount' = rpc2_refcount + 1
    /\ provider' = [provider EXCEPT ![p] = "mounted"]
    /\ CommitClient(Cur, NoTick)
    /\ UNCHANGED <<rpc2_singleton, constructed, held, obtained>>
    /\ UNCHANGED reconcilerVars

\* React runs the cleanup of the effect of provider p
Cleanup(p) ==
    /\ Idle
    /\ provider[p] = "mounted"
    /\ rpc2_refcount' = effectCleanup(rpc2_refcount)
    /\ provider' = [provider EXCEPT ![p] = "rendered"]
    /\ IF effectCleanup(rpc2_refcount) = 0
       THEN CommitClient(disconnect(Cur), NoTick)
       ELSE CommitClient(Cur, NoTick)
    /\ UNCHANGED <<rpc2_singleton, constructed, held, obtained>>
    /\ UNCHANGED reconcilerVars

\* React drops provider p, whose effect is not running
Discard(p) ==
    /\ Idle
    /\ provider[p] = "rendered"
    /\ provider' = [provider EXCEPT ![p] = "none"]
    /\ held' = [held EXCEPT ![p] = NoClient]
    /\ CommitClient(Cur, NoTick)
    /\ UNCHANGED <<rpc2_singleton, rpc2_refcount, constructed, obtained>>
    /\ UNCHANGED reconcilerVars

\* a consumer under provider p calls the connect of its context
CtxConnect(p) ==
    /\ provider[p] = "mounted"
    /\ Connect

\* a consumer under provider p calls the disconnect of its context
CtxDisconnect(p) ==
    /\ provider[p] = "mounted"
    /\ Disconnect

NextShared ==
    \/ SharedClientCall
    \/ \E p \in Providers : Render(p)
    \/ \E p \in Providers : Mount(p)
    \/ \E p \in Providers : Cleanup(p)
    \/ \E p \in Providers : Discard(p)
    \/ \E p \in Providers : CtxConnect(p)
    \/ \E p \in Providers : CtxDisconnect(p)
    \/ \E s \in Sockets : SocketOpen(s)
    \/ \E s \in Sockets : SocketClosing(s)
    \/ \E s \in Sockets : SocketError(s)
    \/ \E s \in Sockets : SocketClose(s)
    \/ \E s \in Sockets : ConnectTimeout(s)
    \/ \E named \in BOOLEAN : ReconnectTimer(named)

SpecShared == InitShared /\ [][NextShared]_vars

\* ----------------------------------------------------- the roster reconciler

\* a property that is absent: a number, a string
Undefined == 0 - 1
Missing == "undefined"

\* x || 0, s || ""
OrZero(x) == IF x = Undefined THEN 0 ELSE x
OrEmpty(s) == IF s = Missing THEN "" ELSE s

\* s ? [s] : []
ListIfSet(s) == IF s = Missing \/ s = "" THEN <<>> ELSE <<s>>

\* the UTF-16 units of the uuids and the code points of the regions (flags of
\* two regional indicators) and of the codes they stand for
CharCodes ==
    ("a" :> <<97>>) @@ ("b" :> <<98>>) @@ ("c" :> <<99>>) @@ ("d" :> <<100>>) @@
    ("FLAG-DE" :> <<127465, 127466>>) @@ ("FLAG-US" :> <<127482, 127480>>) @@
    ("de" :> <<100, 101>>) @@ ("us" :> <<117, 115>>) @@ ("" :> <<>>) @@
    ("node-001" :> <<110, 111, 100, 101, 45, 48, 48, 49>>) @@
    ("ffffffff" :> <<102, 102, 102, 102, 102, 102, 102, 102>>) @@
    ("~~~~~~~~~" :> <<126, 126, 126, 126, 126, 126, 126, 126, 126>>) @@
    ("c0ffee00" :> <<99, 48, 102, 102, 101, 101, 48, 48>>)

\* String.fromCharCode(...).join("")
FromCharCodes(codes) == CHOOSE s \in DOMAIN CharCodes : CharCodes[s] = codes

\* A 32-bit integer is kept as its two 16-bit halves, [hi, lo], in two's
\* complement: the value modulo 2^32 of the number the code holds.
Half == 65536

Int32(n) == [hi |-> (n \div Half) % Half, lo |-> n % Half]

\* x << 5
ShiftLeft5(x) ==
    [hi |-> (x.hi * 32 + (x.lo * 32) \div Half) % Half, lo |-> (x.lo * 32) % Half]

\* a subtraction that does not borrow from the upper half
MinusHalves(x, y) == [hi |-> (x.hi - y.hi) % Half, lo |-> (x.lo - y.lo) % Half]

\* x - y
Minus(x, y) ==
    [hi |-> (x.hi - y.hi - (IF x.lo < y.lo THEN 1 ELSE 0)) % Half,
     lo |-> (x.lo - y.lo) % Half]

\* x + y
Plus(x, y) ==
    [hi |-> (x.hi + y.hi + (x.lo + y.lo) \div Half) % Half, lo |-> (x.lo + y.lo) % Half]

\* the loop of uuidToNumber from unit i on
RECURSIVE uuidHash(_, _, _)
uuidHash(codes, i, hash) ==
    IF i > Len(codes)
    THEN hash
    ELSE uuidHash(codes, i + 1, Plus(Int32(codes[i]), Minus(ShiftLeft5(hash), hash)))

\* hash >>> 0 leaves the halves as they are
uuidToNumber(uuid) == uuidHash(CharCodes[uuid], 1, Int32(0))

countryFlagToCode(flag) ==
    FromCharCodes([i \in 1..Len(CharCodes[flag]) |-> CharCodes[flag][i] - 127397 + 32])

\* new Date(time).getTime() of the timestamps the feeds carry
DateGetTime == ("1970-01-01T00:01:40Z" :> 100000) @@ ("1970-01-01T00:03:20Z" :> 200000)

UuidList == <<"a", "b", "c", "d">>

\* uuids of several characters
LongUuidList == <<"node-001", "c0ffee00", "~~~~~~~~~", "ffffffff">>

\* the first n keys
Uuids(n) == {UuidList[i] : i \in 1..Min(n, Len(UuidList))}
LongUuids(n) == {LongUuidList[i] : i \in 1..Min(n, Len(LongUuidList))}
Weights == {1, 5}

\* a node of the roster
Server(uuid, weight) ==
    [uuid |-> uuid, name |-> "node", os |-> "debian", kernel_version |-> "5.10",
     cpu_name |-> "epyc", gpu_name |-> IF uuid = "a" THEN "a100" ELSE "",
     mem_total |-> 16, disk_total |-> 200, swap_total |-> 4, arch |-> "arm64",
     public_note |-> IF uuid = "a" THEN "note" ELSE Missing,
     region |-> "FLAG-DE", weight |-> weight]

\* the status of a node in the live feed: with every property, or with the time alone
Status(uuid, full) ==
    IF full
    THEN [name |-> "live", os |-> "linux", kernel_version |-> "6.1", cpu_name |-> "xeon",
          gpu_name |-> "h100", ram_total |-> 8, disk_total |-> 100, swap_total |-> 2,
          arch |-> "amd64", region |-> "FLAG-US", time |-> "1970-01-01T00:03:20Z",
          uptime |-> 40, cpu |-> IF uuid = "c" THEN 99 ELSE CharCodes[uuid][1] - 87, ram |-> 4, swap |-> 1, disk |-> 30,
          net_total_down |-> 7, net_total_up |-> 6, net_in |-> 3, net_out |-> 2,
          load |-> 1, load5 |-> 2, load15 |-> 3, connections |-> 5, connections_udp |-> 4,
          process |-> 9, temp |-> 45, gpu |-> 70]
    ELSE [name |-> Missing, os |-> Missing, kernel_version |-> Missing, cpu_name |-> Missing,
          gpu_name |-> Missing, ram_total |-> Undefined, disk_total |-> Undefined,
          swap_total |-> Undefined, arch |-> Missing, region |-> Missing,
          time |-> "1970-01-01T00:01:40Z",
          uptime |-> Undefined, cpu |-> Undefined, ram |-> Undefined, swap |-> Undefined,
          disk |-> Undefined, net_total_down |-> Undefined, net_total_up |-> Undefined,
          net_in |-> Undefined, net_out |-> Undefined, load |-> Undefined,
          load5 |-> Undefined, load15 |-> Undefined, connections |-> Undefined,
          connections_udp |-> Undefined, process |-> Undefined, temp |-> Undefined,
          gpu |-> Undefined]

\* the sequences of distinct keys of at most n keys
KeyLists(keys, n) ==
    {ks \in UNION {[1..m -> keys] : m \in 0..n} :
        \A i, j \in 1..Len(ks) : i # j => ks[i] # ks[j]}

\* the answers to "common:getNodes": an object of at most n nodes under uuids of keys
RosterObjectsOf(keys, n) ==
    {[keys |-> ks, get |-> [i \in 1..Len(ks) |-> Server(ks[i], ws0[i])]] :
        <<ks, ws0>> \in {p \in KeyLists(keys, n) \X
                              UNION {[1..m -> Weights] : m \in 0..n} :
                           Len(p[1]) = Len(p[2])}}

RosterObjects(n) == RosterObjectsOf(Uuids(n), n)

\* the live feeds: an object of at most n statuses under uuids of keys
LiveObjectsOf(keys, n) ==
    {[keys |-> ks, get |-> [i \in 1..Len(ks) |-> Status(ks[i], full)]] :
        ks \in KeyLists(keys, n), full \in BOOLEAN}

\* the uuids of a live feed are those of the roster and one more
LiveObjects(n) == LiveObjectsOf(Uuids(n + 1), n)

\* host and state of an entity taken from its status alone
statusHost(status) ==
    [platform |-> OrEmpty(status.os),
     platform_version |-> OrEmpty(status.kernel_version),
     cpu |-> ListIfSet(status.cpu_name),
     gpu |-> ListIfSet(status.gpu_name),
     mem_total |-> OrZero(status.ram_total),
     disk_total |-> OrZero(status.disk_total),
     swap_total |-> OrZero(status.swap_total),
     arch |-> OrEmpty(status.arch),
     boot_time |-> (DateGetTime[status.time] \div 1000) - OrZero(status.uptime),
     version |-> ""]

statusState(status, gpuListed) ==
    [cpu |-> OrZero(status.cpu),
     mem_used |-> OrZero(status.ram),
     swap_used |-> OrZero(status.swap),
     disk_used |-> OrZero(status.disk),
     net_in_transfer |-> OrZero(status.net_total_down),
     net_out_transfer |-> OrZero(status.net_total_up),
     net_in_speed |-> OrZero(status.net_in),
     net_out_speed |-> OrZero(status.net_out),
     uptime |-> OrZero(status.uptime),
     load_1 |-> OrZero(status.load),
     load_5 |-> OrZero(status.load5),
     load_15 |-> OrZero(status.load15),
     tcp_conn_count |-> OrZero(status.connections),
     udp_conn_count |-> OrZero(status.connections_udp),
     process_count |-> OrZero(status.process),
     temperatures |-> IF status.temp > 0
                      THEN <<[Name |-> "CPU", Temperature |-> status.temp]>>
                      ELSE <<>>,
     gpu |-> IF gpuListed /\ status.gpu # Undefined THEN <<status.gpu>> ELSE <<>>]

\* the entity of a key of the live feed that the roster does not know
statusEntity(uuid, status) ==
    [id |-> uuidToNumber(uuid),
     name |-> IF OrEmpty(status.name) = "" THEN uuid ELSE status.name,
     public_note |-> "",
     last_active |-> status.time,
     country_code |-> IF OrEmpty(status.region) = "" THEN ""
                      ELSE countryFlagToCode(status.region),
     display_index |-> 0,
     host |-> statusHost(status),
     state |-> statusState(status, TRUE)]

\* the servers while no roster is cached: the reduce over Object.entries(data)
degradedServers(entries) ==
    [i \in 1..Len(entries) |-> statusEntity(entries[i][1], entries[i][2])]

\* Map.has, Map.get and Map.delete on the entries of a Map in insertion order
MapHas(m, key) == \E i \in 1..Len(m) : m[i][1] = key
MapGet(m, key) == m[CHOOSE i \in 1..Len(m) : m[i][1] = key][2]

\* a Map.delete that deletes nothing
MapDeleteNothing(m, key) == m

MapDelete(m, key) == SelectSeq(m, LAMBDA e : e[1] # key)

\* a roster entry without a status that is given the state of some status
offlineStateOfOther == statusState(Status("a", TRUE), TRUE)

\* the state of a roster entry without a status
offlineState ==
    [cpu |-> 0, mem_used |-> 0, swap_used |-> 0, disk_used |-> 0,
     net_in_transfer |-> 0, net_out_transfer |-> 0, net_in_speed |-> 0,
     net_out_speed |-> 0, uptime |-> 0, load_1 |-> 0, load_5 |-> 0, load_15 |-> 0,
     tcp_conn_count |-> 0, udp_conn_count |-> 0, process_count |-> 0,
     temperatures |-> <<>>, gpu |-> <<>>]

\* the entity of a roster entry, with the Map as the entries before it left it
rosterEntity(server, statusMap) ==
    LET uuid == server.uuid
        found == MapHas(statusMap, uuid)
        status == MapGet(statusMap, uuid)
    IN  [id |-> uuidToNumber(uuid),
         name |-> server.name,
         public_note |-> OrEmpty(server.public_note),
         last_active |-> IF found THEN status.time ELSE "0000-00-00T00:00:00Z",
         country_code |-> countryFlagToCode(server.region),
         display_index |-> IF server.weight = Undefined THEN 0 ELSE 0 - server.weight,
         host |-> [platform |-> server.os,
                   platform_version |-> server.kernel_version,
                   cpu |-> <<server.cpu_name>>,
                   gpu |-> ListIfSet(server.gpu_name),
                   mem_total |-> server.mem_total,
                   disk_total |-> server.disk_total,
                   swap_total |-> server.swap_total,
                   arch |-> server.arch,
                   boot_time |-> IF found
                                 THEN (DateGetTime[status.time] \div 1000) - OrZero(status.uptime)
                                 ELSE 0,
                   version |-> ""],
         state |-> IF found
                   THEN statusState(status, ListIfSet(server.gpu_name) # <<>>)
                   ELSE offlineState]

\* km_servers_cache.map(...): the entities of the roster and the Map they leave
RECURSIVE rosterPass(_, _, _, _)
rosterPass(cache, i, statusMap, servers) ==
    IF i > Len(cache)
    THEN [servers |-> servers, statusMap |-> statusMap]
    ELSE rosterPass(cache, i + 1, MapDelete(statusMap, cache[i].uuid),
                    Append(servers, rosterEntity(cache[i], statusMap)))

\* an append pass that puts the entities of the Map in front of the roster's
appendPassFirst(servers, statusMap) ==
    [i \in 1..Len(statusMap) |-> statusEntity(statusMap[i][1], statusMap[i][2])] \o servers

\* the loop over statusMap.entries(): the entities the roster does not know
appendPass(servers, statusMap) ==
    servers \o [i \in 1..Len(statusMap) |-> statusEntity(statusMap[i][1], statusMap[i][2])]

\* a roster pass that sorts the cache by descending weight first
RECURSIVE sortedByWeight(_)
sortedByWeight(cache) ==
    IF Len(cache) = 0
    THEN <<>>
    ELSE LET top == CHOOSE i \in 1..Len(cache) :
                        /\ \A j \in 1..Len(cache) : cache[j].weight <= cache[i].weight
                        /\ \A j \in 1..(i - 1) : cache[j].weight < cache[i].weight
         IN  <<cache[top]>> \o
             sortedByWeight([j \in 1..(Len(cache) - 1) |->
                                IF j < top THEN cache[j] ELSE cache[j + 1]])

\* the order in which the roster pass takes the cache: as it is
cacheOrder(cache) == cache

\* the servers komariToNezhaWebsocketResponse returns
servers(cache, o) ==
    IF Len(cache) = 0
    THEN degradedServers(ObjectEntries(o))
    ELSE LET pass == rosterPass(cacheOrder(cache), 1, ObjectEntries(o), <<>>)
         IN  appendPass(pass.servers, pass.statusMap)

\* the client SharedClient() returns once the access point has come to sh
Built(sh) ==
    IF sh.singleton # rpc2_singleton
    THEN construct(Fresh(budget.sockets, budget.calls))
    ELSE Cur

\* the roster fetch of a call that finds the cache empty:
\* SharedClient().call("common:getNodes").then(...)
getNodes(k) ==
    LET sh == getSingleton(CurShared)
    IN  /\ k <= budget.calls
        /\ calls[k].pc = "idle"
        /\ \A j \in Calls : j < k => calls[j].pc # "idle"
        /\ Built(sh).connectionState = "disconnected" => ConnectFits(Built(sh))
        /\ rpc2_singleton' = sh.singleton
        /\ constructed' = sh.constructed
        /\ obtained' = obtained \cup {sh.singleton}
        /\ CommitClient(call(Built(sh), k, FALSE), NoTick)
        /\ fetches' = fetches \cup {k}

InitReconcile ==
    /\ Starts(Fresh(ReconcileSockets, ReconcileFetches))
    /\ SharedLoaded
    /\ nodes \in RosterObjects(FetchRoster)

\* the live feed delivers o: komariToNezhaWebsocketResponse(o)
Reconcile(o) ==
    /\ Idle
    /\ IF Len(km_servers_cache) = 0
       THEN \E k \in Calls : getNodes(k)
       ELSE /\ CommitClient(Cur, NoTick)
            /\ UNCHANGED <<rpc2_singleton, constructed, obtained, fetches>>
    /\ data' = o
    /\ used' = km_servers_cache
    /\ view' = servers(km_servers_cache, o)
    /\ returned' = TRUE
    /\ UNCHANGED <<km_servers_cache, nodes, rpc2_refcount, provider, held>>

NextReconcile ==
    \/ \E o \in LiveObjects(FetchLive) : Reconcile(o)
    \/ \E k \in Calls, r \in {"ok", "err"} : HttpDone(k, r)
    \/ \E s \in Sockets : SocketOpen(s)
    \/ \E s \in Sockets : SocketClose(s)
    \/ \E s \in Sockets, id \in 0..MaxId, isError \in BOOLEAN : SocketMessage(s, id, isError)
    \/ \E id \in Ids : RequestTimeout(id)

SpecReconcile == InitReconcile /\ [][NextReconcile]_vars

\* the state after komariToNezhaWebsocketResponse({}) has started the first
\* roster fetch, over the discrete carrier, and the server has answered it
ServersFetched(rosters) ==
    /\ Starts(httpSettled(call(construct(Fresh(ReconcileSockets, ReconcileFetches)), 1, FALSE),
                          1, "ok"))
    /\ rpc2_singleton = getSingleton([singleton |-> NoClient, constructed |-> 0]).singleton
    /\ constructed = getSingleton([singleton |-> NoClient, constructed |-> 0]).constructed
    /\ obtained = {rpc2_singleton}
    /\ rpc2_refcount = 0
    /\ provider = [p \in Providers |-> "none"]
    /\ held = [p \in Providers |-> NoClient]
    /\ nodes \in rosters
    /\ km_servers_cache = getNodesThen(<<>>, nodes, TRUE)
    /\ fetches = {1}
    /\ data = EmptyObject
    /\ used = <<>>
    /\ view = servers(<<>>, EmptyObject)
    /\ returned = TRUE

InitServers == ServersFetched(RosterObjects(MaxRoster))

\* the reconciler alone, fed with one live feed after the other
NextServers == \E o \in LiveObjects(MaxLive) : Reconcile(o)

SpecServers == InitServers /\ [][NextServers]_vars

\* the reconciler fed with rosters and live feeds of long uuids
InitHash == ServersFetched(RosterObjectsOf(LongUuids(HashLive + 1), HashRoster))

NextHash == \E o \in LiveObjectsOf(LongUuids(HashLive + 1), HashLive) : Reconcile(o)

SpecHash == InitHash /\ [][NextHash]_vars

\* ------------------------------------------------------------- batchCall()

UpTo(S, n) == UNION {[1..m -> S] : m \in 0..n}

Methods == {"common:getNodes", "common:getMe"}

\* the arguments a caller may pass: { method, notification }
Requests == [method : Methods, notification : BOOLEAN]

\* a response of the server's array: batchCall reads its error member, if it
\* has one, and its result member otherwise
Responses ==
    [result : {"r1", "r2"}] \cup [error : [code : {32601, 32602}]]

\* requests.map(req => ({ method, id: notification ? undefined : generateRequestId() })):
\* the client after the ids are drawn, and the batchRequest
RECURSIVE batchRequest(_, _)
batchRequest(c, requests) ==
    IF requests = <<>>
    THEN [client |-> c, sent |-> <<>>]
    ELSE LET req == Head(requests)
             c1 == IF req.notification THEN c ELSE generateRequestId(c)
             entry == [method |-> req.method,
                       id |-> IF req.notification THEN Undefined ELSE c1.requestId]
             rest == batchRequest(c1, Tail(requests))
         IN  [client |-> rest.client, sent |-> <<entry>> \o rest.sent]

\* batchCall, up to its await of fetch
batchCall(c, requests) ==
    LET b == batchRequest(c, requests)
    IN  [b.client EXCEPT !.batch = [@ EXCEPT !.pc = "fetch", !.requests = requests,
                                             !.sent = b.sent, !.posts = @ + 1]]

\* jsonResponse.map(res => ...): the callback throws at the first response
\* that has an error member, and map returns nothing then
RECURSIVE mapResponses(_)
mapResponses(jsonResponse) ==
    IF jsonResponse = <<>>
    THEN [threw |-> FALSE, error |-> 0, results |-> <<>>]
    ELSE LET res == Head(jsonResponse)
         IN  IF "error" \in DOMAIN res
             THEN [threw |-> TRUE, error |-> res.error.code, results |-> <<>>]
             ELSE LET rest == mapResponses(Tail(jsonResponse))
                  IN  IF rest.threw
                      THEN rest
                      ELSE [rest EXCEPT !.results = <<res.result>> \o @]

\* a batchCall that returns the results of the responses without an error member
batchSettledPartial(c, ok, jsonResponse) ==
    LET good == SelectSeq(jsonResponse, LAMBDA res : "error" \notin DOMAIN res)
    IN  [c EXCEPT !.batch = [@ EXCEPT !.pc = "done", !.jsonResponse = jsonResponse,
                                      !.outcome = "results",
                                      !.results = [i \in 1..Len(good) |-> good[i].result]]]

\* the continuation of batchCall's fetch: ok is response.ok, jsonResponse the
\* array of the body, which is read only if ok
batchSettled(c, ok, jsonResponse) ==
    IF ~ok
    THEN [c EXCEPT !.batch = [@ EXCEPT !.pc = "done", !.outcome = "http_error"]]
    ELSE LET m == mapResponses(jsonResponse)
         IN  [c EXCEPT !.batch = [@ EXCEPT !.pc = "done", !.jsonResponse = jsonResponse,
                                           !.outcome = IF m.threw THEN "rpc_error" ELSE "results",
                                           !.error = m.error,
                                           !.results = m.results]]

\* a caller calls batchCall(requests)
BatchCall(requests) ==
    /\ Idle
    /\ batch.pc = "idle"
    /\ Commit(batchCall(Cur, requests), NoTick)

\* the server answers the POST of the batch
BatchDone(ok, jsonResponse) ==
    /\ Idle
    /\ batch.pc = "fetch"
    /\ Commit(batchSettled(Cur, ok, jsonResponse), NoTick)

InitBatch == Constructed(CallSockets, 0)

NextBatch ==
    \/ \E requests \in UpTo(Requests, MaxBatch) : BatchCall(requests)
    \/ \E ok \in BOOLEAN, jsonResponse \in UpTo(Responses, MaxResponses) :
           BatchDone(ok, jsonResponse)
    \/ \E s \in Sockets : SocketOpen(s)
    \/ \E s \in Sockets : SocketClose(s)

SpecBatch == InitBatch /\ [][NextBatch]_vars

\* ------------------------------------------------------------------ claims

\* C1: a stored continuation is invoked only for an id of the table, which
\* leaves the table with it, and never twice, be it by a response, by a
\* timeout or by disconnect(); a response settles the one PendingCall whose id
\* it carries and no other, with its result or with its error, so that a
\* duplicate, finding no entry, settles nothing.
C1_ResponseSettlesOnce ==
    /\ [](\A id \in Ids : /\ settled[id] <= 1
                          /\ id \in pendingRequests => settled[id] = 0)
    /\ [][\A id \in Ids :
            settled'[id] # settled[id] =>
                /\ id \in pendingRequests
                /\ id \notin pendingRequests'
                /\ settledAs' \in {"result", "error"} =>
                      /\ \A i \in Ids \ {id} :
                            /\ settled'[i] = settled[i]
                            /\ i \in pendingRequests' <=> i \in pendingRequests
                      /\ \A k \in Calls :
                            IF calls[k].pc = "ws_wait" /\ calls[k].wsId = id
                            THEN IF settledAs' = "result"
                                 THEN calls'[k].pc = "done" /\ calls'[k].outcome = "ws_result"
                                 ELSE calls'[k].pc = "http"
                            ELSE calls'[k] = calls[k]]_vars

\* a response has resolved one call while another is outstanding on an open socket
C1_Witness ==
    /\ settledAs = "result"
    /\ pendingRequests # {}
    /\ \E k \in Calls : calls[k].pc = "ws_wait"
    /\ \E s \in Sockets : readyState[s] = "OPEN"

C3_FallbackOutcome ==
    \A k \in Calls :
        calls[k].httpAttempts >= 1 =>
            \/ calls[k].pc = "http" /\ calls[k].outcome = "none"
            \/ /\ calls[k].pc = "done"
               /\ calls[k].httpResult \in {"ok", "err"}
               /\ calls[k].outcome = IF calls[k].httpResult = "ok" THEN "http_ok" ELSE "http_err"

\* both outcomes of a fallback: one call fell back and succeeded, one fell back and failed
C3_Witness ==
    \E k, j \in Calls :
        /\ calls[k].wsAttempts = 1 /\ calls[k].pc = "done" /\ calls[k].httpResult = "ok"
        /\ calls[j].wsAttempts = 1 /\ calls[j].pc = "done" /\ calls[j].httpResult = "err"

\* C4: disconnect(), in whatever state and with however many calls outstanding,
\* rejects every PendingCall of the table with the connection-closed error,
\* cancels its timer and leaves the table empty.
C4_DisconnectRejectsAll ==
    [][(ws' = NoSocket /\ ~autoReconnect' /\ Disconnect) =>
          /\ pendingRequests' = {}
          /\ requestTimers' = {}
          /\ \A id \in Ids :
                settled'[id] = settled[id] + (IF id \in pendingRequests THEN 1 ELSE 0)
          /\ pendingRequests # {} => settledAs' = "closed"
          /\ \A k \in Calls : calls[k].pc = "ws_wait" => calls'[k].pc = "http"]_vars

\* disconnect() has rejected two outstanding calls
C4_Witness ==
    /\ pendingRequests = {}
    /\ settledAs = "closed"
    /\ \E k, j \in Calls : k # j /\ calls[k].pc = "http" /\ calls[j].pc = "http"
    /\ \E i, j \in Ids : i # j /\ settled[i] = 1 /\ settled[j] = 1

\* C5: after disconnect(), and until connect() next constructs a socket, the
\* state is not Connecting, Reconnecting or Connected.
C5_StaysDisconnected ==
    (~autoReconnect /\ ws = NoSocket) =>
        connectionState \notin {"connecting", "reconnecting", "connected"}

\* C6: after disconnect() no reconnect timer that was scheduled before it is
\* left to fire (none is scheduled after it: autoReconnect stays off).
C6_NoTimerSurvivesDisconnect == ~autoReconnect => reconnectTimers = 0

\* C7: once a socket close at the maximum has left the client Disconnected, no
\* automatic retry is to come.
C7_StopsAtMaximum ==
    (autoReconnect /\ connectionState = "disconnected"
        /\ reconnectAttempts = MaxReconnectAttempts) => reconnectTimers = 0

\* C8: the attempt counter stays within 0..maxReconnectAttempts, grows by one
\* exactly when a reconnect timer is scheduled, and is zero after a socket open.
C8_AttemptCounter ==
    /\ [](reconnectAttempts \in 0..MaxReconnectAttempts)
    /\ [][/\ reconnectTimers' > reconnectTimers =>
                /\ reconnectTimers' = reconnectTimers + 1
                /\ reconnectAttempts' = reconnectAttempts + 1
          /\ reconnectAttempts' > reconnectAttempts => reconnectTimers' = reconnectTimers + 1
          /\ \A s \in Sockets : SocketOpen(s) => reconnectAttempts' = 0]_vars

\* a socket open has reset a counter that a scheduled attempt had raised
C8_Witness ==
    /\ connectionState = "connected"
    /\ reconnectAttempts = 0
    /\ reconnectTimeout # "undefined"

\* C9: at most one socket of the client is connecting or open.
C9_OneLiveSocket ==
    Cardinality({s \in Sockets : readyState[s] \in {"CONNECTING", "OPEN"}}) <= 1

\* C10 as stated: a heartbeat tick sends exactly one ping while the state is
\* Connected, and none in any other state.
C10_OnePingWhileConnected ==
    ticked # NoTick => ticked = (IF connectionState = "connected" THEN 1 ELSE 0)

\* C10 as amended: the heartbeat runs whenever the state is Connected, at most
\* one interval runs, and a tick sends exactly one ping if the current socket
\* is open and none otherwise (none once disconnect() has dropped the socket).
C10_OnePingWhileOpen ==
    /\ heartbeatTimers <= 1
    /\ connectionState = "connected" => heartbeatTimers = 1
    /\ ticked # NoTick => ticked = (IF canSend(Cur) THEN 1 ELSE 0)
    /\ ws = NoSocket => ticked <= 0

\* a tick has sent its ping on a socket that a reconnect made
C10_Witness == ticked = 1 /\ ws > 1 /\ reconnectTimeout # "undefined"

C12_NotificationResolvesAtOnce ==
    \A k \in Calls :
        (calls[k].notification /\ calls[k].pc # "idle") =>
            calls[k].pc = "done" /\ calls[k].outcome \in {"ws_undefined", "http_ok"}

\* C13 as stated: a call whose PendingCall is rejected by an error response or
\* by its timeout is rejected to its caller, with no HTTP attempt.
C13_ProtocolErrorSurfaces ==
    [][\A k \in Calls :
          (calls[k].pc = "ws_wait" /\ calls'[k].pc # "ws_wait"
              /\ settledAs' \in {"error", "timeout"}) =>
              calls'[k].pc = "done" /\ calls'[k].httpAttempts = 0]_vars

\* C13 as amended: a call that waits for its response leaves the wait either
\* resolved with the result, or, on an error response, a timeout or a
\* disconnect alike, with its one HTTP attempt started.
C13_EveryFailureFallsBack ==
    [][\A k \in Calls :
          (calls[k].pc = "ws_wait" /\ calls'[k].pc # "ws_wait") =>
              IF settledAs' = "result"
              THEN calls'[k].pc = "done" /\ calls'[k].outcome = "ws_result"
                      /\ calls'[k].httpAttempts = 0
              ELSE /\ settledAs' \in {"error", "timeout", "closed"}
                   /\ calls'[k].pc = "http"
                   /\ calls'[k].httpAttempts = 1
                   /\ calls'[k].outcome = "none"]_vars

\* an error response has just sent a waiting call to HTTP
C13_Witness ==
    /\ settledAs = "error"
    /\ \E k \in Calls : calls[k].pc = "http" /\ calls[k].wsAttempts = 1

\* C14: every SharedClient() call and every provider obtains the same client
\* instance, the constructor runs at most once, and the singleton, once set,
\* is never replaced, whatever mounts and unmounts there are and although the
\* count returns to zero.
C14_OneClient ==
    /\ [](/\ constructed <= 1
          /\ Cardinality(obtained) <= 1
          /\ \A p \in Providers :
                provider[p] # "none" => held[p] # NoClient /\ held[p] = rpc2_singleton)
    /\ [][rpc2_singleton # NoClient => rpc2_singleton' = rpc2_singleton]_vars

\* the count is back at zero, the client is torn down, and a provider that
\* is rendered holds the one instance
C14_Witness ==
    /\ constructed = 1
    /\ rpc2_refcount = 0
    /\ ~autoReconnect
    /\ \E p \in Providers : provider[p] = "rendered" /\ held[p] = rpc2_singleton

\* C15: the count equals the number of mounted providers and is never
\* negative, and the client is torn down only in a step that brings the count
\* to zero.
C15_TeardownOnlyAtZero ==
    /\ [](/\ rpc2_refcount >= 0
          /\ rpc2_refcount = Cardinality({p \in Providers : provider[p] = "mounted"}))
    /\ [][(autoReconnect /\ ~autoReconnect') => rpc2_refcount' = 0]_vars

\* C16: whatever the cached roster and the live feed, the servers returned
\* are at least as many as the roster entries and as the keys of the feed, and
\* every key of the roster and every key of the feed is the key of exactly one
\* of them (an entity carries its key as id, the hash of the key).
C16_EveryKeyOnce ==
    returned =>
        /\ Len(view) >= Len(used)
        /\ Len(view) >= Len(data.keys)
        /\ \A i \in 1..Len(used) :
               Cardinality({j \in 1..Len(view) : view[j].id = uuidToNumber(used[i].uuid)}) = 1
        /\ \A i \in 1..Len(data.keys) :
               Cardinality({j \in 1..Len(view) : view[j].id = uuidToNumber(data.keys[i])}) = 1

\* a roster of two, a feed of two: one key merged, one offline, one appended
C16_Witness ==
    /\ returned
    /\ Len(used) = 2
    /\ Len(data.keys) = 2
    /\ Len(view) = 3
    /\ \E i \in 1..2 : used[i].uuid \in {data.keys[k] : k \in 1..2}

\* C17 as claimed: with a cached roster the entities of the roster come first
\* in descending weight, those of equal weight in the order of the roster.
C17_DescendingWeight ==
    (returned /\ Len(used) > 0) =>
        \A i, j \in 1..Len(used) :
            i < j =>
                /\ view[i].display_index <= view[j].display_index
                /\ view[i].display_index = view[j].display_index =>
                       \E p, q \in 1..Len(used) :
                           /\ p < q
                           /\ view[i].id = uuidToNumber(used[p].uuid)
                           /\ view[j].id = uuidToNumber(used[q].uuid)

\* C17: with a cached roster the entities of the roster come first in the
\* order of the cache, which is the order of the answer to the roster fetch,
\* whatever their weights and with or without a status in the feed; the weight
\* is handed on, negated, as display_index.
C17_CacheOrder ==
    (returned /\ Len(used) > 0) =>
        /\ Len(view) >= Len(used)
        /\ \A i \in 1..Len(used) :
               /\ view[i].id = uuidToNumber(used[i].uuid)
               /\ view[i].display_index = 0 - used[i].weight

\* the lighter entry first in the roster, with a status; the heavier without
C17_Witness ==
    /\ returned
    /\ Len(used) = 2
    /\ used[1].weight < used[2].weight
    /\ \E k \in 1..Len(data.keys) : data.keys[k] = used[1].uuid
    /\ \A k \in 1..Len(data.keys) : data.keys[k] # used[2].uuid
    /\ view[1].id = uuidToNumber(used[1].uuid)

\* C18: with a cached roster, the entity of a roster entry whose key the feed
\* lacks has every measurement zero, no temperature and no GPU load, the
\* all-zero timestamp as last_active, and the host facts of the roster entry.
C18_OfflineIsZero ==
    (returned /\ Len(used) > 0) =>
        \A i \in 1..Len(used), j \in 1..Len(view) :
            (/\ view[j].id = uuidToNumber(used[i].uuid)
             /\ \A k \in 1..Len(data.keys) : data.keys[k] # used[i].uuid) =>
                /\ \A f \in {"cpu", "mem_used", "swap_used", "disk_used", "net_in_transfer",
                              "net_out_transfer", "net_in_speed", "net_out_speed", "uptime",
                              "load_1", "load_5", "load_15", "tcp_conn_count",
                              "udp_conn_count", "process_count"} : view[j].state[f] = 0
                /\ DOMAIN view[j].state =
                       {"cpu", "mem_used", "swap_used", "disk_used", "net_in_transfer",
                        "net_out_transfer", "net_in_speed", "net_out_speed", "uptime",
                        "load_1", "load_5", "load_15", "tcp_conn_count",
                        "udp_conn_count", "process_count", "temperatures", "gpu"}
                /\ view[j].state.temperatures = <<>>
                /\ view[j].state.gpu = <<>>
                /\ view[j].last_active = "0000-00-00T00:00:00Z"
                /\ view[j].name = used[i].name
                /\ view[j].host.platform = used[i].os
                /\ view[j].host.platform_version = used[i].kernel_version
                /\ view[j].host.arch = used[i].arch
                /\ view[j].host.cpu = <<used[i].cpu_name>>
                /\ view[j].host.mem_total = used[i].mem_total
                /\ view[j].host.disk_total = used[i].disk_total
                /\ view[j].host.swap_total = used[i].swap_total
                /\ view[j].host.boot_time = 0

\* a roster entry without a status beside a key of the feed with every property
C18_Witness ==
    /\ returned
    /\ Len(used) = 2
    /\ Len(data.keys) = 2
    /\ data.get[1].cpu > 0
    /\ \A k \in 1..2 : data.keys[k] # used[2].uuid
    /\ view[2].id = uuidToNumber(used[2].uuid)
    /\ view[2].state.uptime = 0

\* C19: with a cached roster, every key of the feed that no roster entry has
\* gets exactly one entity, placed after the entities of all roster entries and
\* taken from its own status; the roster [a (weight 5), b (weight 1)] with the
\* feed {a, c} gives a merged, b offline, c new, in this order.
C19_UnknownKeysAppended ==
    (returned /\ Len(used) > 0) =>
        /\ \A k \in 1..Len(data.keys) :
               (\A i \in 1..Len(used) : used[i].uuid # data.keys[k]) =>
                   /\ Cardinality({j \in 1..Len(view) :
                                      view[j].id = uuidToNumber(data.keys[k])}) = 1
                   /\ \A j \in 1..Len(view) :
                          view[j].id = uuidToNumber(data.keys[k]) =>
                              /\ j > Len(used)
                              /\ view[j].last_active = data.get[k].time
                              /\ view[j].display_index = 0
                              /\ view[j].state.cpu = OrZero(data.get[k].cpu)
                              /\ view[j].state.mem_used = OrZero(data.get[k].ram)
                              /\ view[j].state.uptime = OrZero(data.get[k].uptime)
                              /\ view[j].host.platform = OrEmpty(data.get[k].os)
                              /\ view[j].host.arch = OrEmpty(data.get[k].arch)
                              /\ view[j].host.mem_total = OrZero(data.get[k].ram_total)
        /\ (/\ Len(used) = 2
            /\ used[1].uuid = "a" /\ used[1].weight = 5
            /\ used[2].uuid = "b" /\ used[2].weight = 1
            /\ data.keys = <<"a", "c">>) =>
               /\ Len(view) = 3
               /\ view[1].id = uuidToNumber("a")
               /\ view[1].last_active = data.get[1].time
               /\ view[1].state.cpu = OrZero(data.get[1].cpu)
               /\ view[2].id = uuidToNumber("b")
               /\ view[2].last_active = "0000-00-00T00:00:00Z"
               /\ view[2].state.cpu = 0
               /\ view[3].id = uuidToNumber("c")
               /\ view[3].state.cpu = OrZero(data.get[2].cpu)

\* the example: a with cpu 10 and c with cpu 99 in the feed, b in the roster alone
C19_Witness ==
    /\ returned
    /\ Len(used) = 2
    /\ used[1].uuid = "a" /\ used[1].weight = 5
    /\ used[2].uuid = "b" /\ used[2].weight = 1
    /\ data.keys = <<"a", "c">>
    /\ data.get[1].cpu = 10
    /\ data.get[2].cpu = 99
    /\ Len(view) = 3
    /\ view[3].state.cpu = 99

C21_StateMachineEdges ==
    [][/\ (connectionState' = "connected" /\ connectionState # "connected") =>
              /\ connectionState = "connecting"
              /\ ws # NoSocket /\ ws' = ws
              /\ readyState[ws] = "CONNECTING" /\ readyState'[ws] = "OPEN"
       /\ (connectionState' = "error" /\ connectionState # "error") =>
              connectionState = "connecting"
       /\ (connectionState' = "reconnecting" /\ connectionState # "reconnecting") =>
              /\ reconnectAttempts' = reconnectAttempts + 1
              /\ \E s \in Sockets : readyState'[s] = "CLOSED"
       /\ (connectionState' = "connecting" /\ connectionState # "connecting") =>
              /\ ws' # NoSocket /\ ws' # ws
              /\ readyState[ws'] = "NEW"
       /\ (\E s \in Sockets : /\ s # ws
                               /\ readyState[s] # "NEW"
                               /\ readyState'[s] # readyState[s]) =>
              connectionState' = connectionState]_vars

\* C22 as claimed: when the current socket closes while the state is Connected,
\* the state is Reconnecting after the same task if autoReconnect is on and
\* attempts remain, and Disconnected otherwise; and from Reconnecting after the
\* close of the current socket the state comes to Connecting once the delay has
\* elapsed, unless disconnect() is called (or the run has no socket left to
\* construct).
C22_CloseThenReconnect ==
    /\ [][(/\ connectionState = "connected"
            /\ ws # NoSocket
            /\ readyState[ws] \in {"OPEN", "CLOSING"}
            /\ readyState'[ws] = "CLOSED") =>
               connectionState' = IF autoReconnect /\ reconnectAttempts < MaxReconnectAttempts
                                  THEN "reconnecting"
                                  ELSE "disconnected"]_vars
    /\ (/\ connectionState = "reconnecting"
        /\ autoReconnect
        /\ ws # NoSocket
        /\ readyState[ws] = "CLOSED") ~>
           \/ connectionState = "connecting"
           \/ ~autoReconnect
           \/ FreeSockets(Cur) = {}

\* C23 as claimed: the task in which the promise of connect() is rejected, by
\* the error event or by the 10 s timer, leaves the state Error; and from Error
\* with autoReconnect on and attempts left, a reconnection is scheduled in the
\* end, unless disconnect() is called.
C23_FailureThenReconnect ==
    /\ [][\A s \in Sockets :
              (connectWait[s] /\ ~connectWait'[s] /\ readyState'[s] # "OPEN") =>
                  connectionState' = "error"]_vars
    /\ (/\ connectionState = "error"
        /\ autoReconnect
        /\ reconnectAttempts < MaxReconnectAttempts) ~>
           \/ connectionState = "reconnecting"
           \/ ~autoReconnect

\* C24: every entry of the correlation table has its timeout timer scheduled,
\* its stored continuation is invoked at most once, and the entry leaves the
\* table in the end with the continuation invoked exactly once: by a response,
\* by the timeout or by disconnect(), also after the socket has closed without
\* a disconnect().
C24_EveryPendingCallSettles ==
    /\ [](\A id \in Ids : /\ settled[id] <= 1
                          /\ id \in pendingRequests => id \in requestTimers)
    /\ \A id \in Ids :
           (id \in pendingRequests) ~> (id \notin pendingRequests /\ settled[id] = 1)

\* the socket has closed, no disconnect() was called, and the timeout has
\* rejected the call, which is now on its HTTP fallback
C24_Witness ==
    /\ settledAs = "timeout"
    /\ autoReconnect
    /\ \A s \in Sockets : readyState[s] # "OPEN"
    /\ \E s \in Sockets : readyState[s] = "CLOSED"
    /\ \E k \in Calls : calls[k].pc = "http" /\ calls[k].wsAttempts = 1

\* C25: the step in which the timeout of call id fires removes the entry and the
\* timer of id and nothing else from the table, rejects id and no other call, and
\* leaves the socket, the connection state, the reconnection policy and timers,
\* the heartbeat and every other waiting call as they were; an id that is not in
\* the table is settled by no step, so a late response for it is ignored.
C25_TimeoutFrame ==
    /\ [][\A id \in Ids :
             (id \in requestTimers /\ id \notin requestTimers' /\ settledAs' = "timeout") =>
                 /\ pendingRequests' = pendingRequests \ {id}
                 /\ requestTimers' = requestTimers \ {id}
                 /\ settled' = [settled EXCEPT ![id] = @ + 1]
                 /\ <<ws, readyState, connectWait, connectionState>>' =
                        <<ws, readyState, connectWait, connectionState>>
                 /\ <<autoReconnect, reconnectAttempts, reconnectTimeout, reconnectTimers>>' =
                        <<autoReconnect, reconnectAttempts, reconnectTimeout, reconnectTimers>>
                 /\ <<heartbeatInterval, heartbeatTimers>>' = <<heartbeatInterval, heartbeatTimers>>
                 /\ \A k \in Calls : calls[k].wsId # id => calls'[k] = calls[k]]_vars
    /\ [][\A id \in Ids :
             id \notin pendingRequests => (settled'[id] = settled[id] /\ Awaiting(Cur, id) = {})]_vars

\* a timeout has fired while another call waits on the open socket, and the
\* call that timed out has gone on to the discrete exchange
C25_Witness ==
    /\ settledAs = "timeout"
    /\ connectionState = "connected" /\ canSend(Cur)
    /\ heartbeatInterval
    /\ \E k \in Calls : calls[k].pc = "ws_wait" /\ calls[k].wsId \in pendingRequests
    /\ \E k \in Calls : calls[k].pc = "http" /\ calls[k].wsAttempts = 1

\* C26: every entry of the pending-request table, and every request timer,
\* belongs to a call whose request was sent and that still waits for its
\* response; a call whose send failed leaves no entry and no timer behind.
C26_EntriesAreSentAndUnsettled ==
    /\ \A id \in pendingRequests : Awaiting(Cur, id) # {}
    /\ \A id \in requestTimers : Awaiting(Cur, id) # {}

\* C27: whenever the state is Connected the client holds a socket, and that
\* socket is the one whose open event produced the state: it is not absent and
\* it is not a later socket that is still opening.
C27_ConnectedHasItsSocket ==
    connectionState = "connected" =>
        (ws # NoSocket /\ readyState[ws] # "CONNECTING" /\ ~connectWait[ws])

\* C28: once disconnect() has run, by a consumer or by the teardown of the
\* access point, automatic reconnection stays disabled: the flag is never set
\* again, no step schedules a reconnect timer, and the state is never
\* Reconnecting, also after a later connect() has opened a socket that closes.
C28_DisconnectDisablesReconnect ==
    /\ [][(ws # NoSocket /\ ws' = NoSocket) => ~autoReconnect']_vars
    /\ [][~autoReconnect =>
             /\ ~autoReconnect'
             /\ reconnectTimers' <= reconnectTimers
             /\ reconnectTimeout' # "live"
             /\ connectionState' # "reconnecting"]_vars

\* after a disconnect a later connect() has opened a socket, and that socket
\* has closed under the client without a reconnection
C28_Witness ==
    /\ ~autoReconnect
    /\ ws # NoSocket /\ readyState[ws] = "CLOSED"
    /\ connectionState = "disconnected"
    /\ reconnectTimeout # "live"
    /\ rpc2_refcount > 0

\* C29 as stated: once the cache holds a non-empty roster no step starts a
\* roster fetch and no step changes the cache, whatever fetches are in flight;
\* a reconciliation call that finds the cache empty starts one fetch of its own.
C29_CacheFrozenOnceFilled ==
    /\ [][Len(km_servers_cache) > 0 =>
             (fetches' = fetches /\ km_servers_cache' = km_servers_cache)]_vars
    /\ [][(Len(km_servers_cache) = 0 /\ <<data, returned>>' # <<data, returned>>) =>
             Cardinality(fetches') = Cardinality(fetches) + 1]_vars

\* C29, amended: while the cache holds a non-empty roster no step starts a
\* roster fetch; the cache changes only in a step that fulfils a roster fetch
\* started earlier, and then to the values of an answer of the server (which
\* may be empty); a fetch that fails leaves it as it was; a reconciliation call
\* that finds the cache empty starts one fetch of its own.
C29_CacheFollowsFulfilledFetches ==
    /\ [][Len(km_servers_cache) > 0 => fetches' = fetches]_vars
    /\ [][km_servers_cache' # km_servers_cache =>
             /\ \E k \in fetches : /\ calls[k].pc # "done"
                                   /\ calls'[k].pc = "done"
                                   /\ calls'[k].outcome \in {"ws_result", "http_ok"}
             /\ km_servers_cache' \in {ObjectValues(nodes), ObjectValues(EmptyObject)}]_vars
    /\ [][(Len(km_servers_cache) = 0 /\ <<data, returned>>' # <<data, returned>>) =>
             Cardinality(fetches') = Cardinality(fetches) + 1]_vars

\* a reconciliation call has used a non-empty roster, and a fetch started
\* before the cache was filled has since been fulfilled with an empty answer
C29_Witness ==
    /\ Len(used) > 0
    /\ km_servers_cache = <<>>
    /\ Cardinality(fetches) = ReconcileFetches
    /\ \A k \in fetches : calls[k].pc = "done" /\ calls[k].outcome \in {"ws_result", "http_ok"}

\* C30: batchCall posts its requests once, as one array in the order given, and
\* registers no pending call; when the answer is read, the call returns the
\* result of every response in the order of the responses if none of them has an
\* error, and is otherwise rejected with the error of the first response that
\* has one, with no results.
C30_BatchAllOrFirstError ==
    /\ batch.pc # "idle" =>
           /\ batch.posts = 1 /\ pendingRequests = {}
           /\ Len(batch.sent) = Len(batch.requests)
           /\ \A i \in 1..Len(batch.sent) : batch.sent[i].method = batch.requests[i].method
    /\ (batch.pc = "done" /\ batch.outcome # "http_error") =>
           LET rs == batch.jsonResponse
               errors == {i \in 1..Len(rs) : "error" \in DOMAIN rs[i]}
           IN  IF errors = {}
               THEN /\ batch.outcome = "results"
                    /\ Len(batch.results) = Len(rs)
                    /\ \A i \in 1..Len(rs) : batch.results[i] = rs[i].result
               ELSE /\ batch.outcome = "rpc_error"
                    /\ batch.results = <<>>
                    /\ \E i \in errors : /\ \A j \in errors : i <= j
                                        /\ batch.error = rs[i].error.code

\* a batch of two requests was answered with a result and then two different
\* errors, and was rejected with the first of them
C30_Witness ==
    /\ batch.pc = "done" /\ Len(batch.requests) = 2
    /\ batch.jsonResponse = <<[result |-> "r1"], [error |-> [code |-> 32602]],
                              [error |-> [code |-> 32601]]>>
    /\ batch.outcome = "rpc_error" /\ batch.error = 32602

\* C31: in every path, the entity of a key of the feed whose status has a
\* numeric gpu carries that number, alone in a list, as the GPU load of its
\* state, whatever the roster entry of the key says.
C31_NumericGpuWrapped ==
    returned =>
        \A k \in 1..Len(data.keys), j \in 1..Len(view) :
            (/\ view[j].id = uuidToNumber(data.keys[k])
             /\ data.get[k].gpu # Undefined) =>
                view[j].state.gpu = <<data.get[k].gpu>>

\* C32: the id of every entity, in the degraded, the roster-merged and the
\* appended path alike, is the rolling hash h := 31 * h + charCode of its key,
\* taken over the characters in order from 0 and reduced modulo 2^32 (here on
\* the two 16-bit halves of h), and so an integer of [0, 2^32) that the key
\* alone determines.
C32_RollingHash ==
    LET RECURSIVE Rolling(_, _)
        Rolling(codes, h) ==
            IF codes = <<>>
            THEN h
            ELSE Rolling(Tail(codes),
                         [hi |-> (31 * h.hi + (31 * h.lo + Head(codes)) \div Half) % Half,
                          lo |-> (31 * h.lo + Head(codes)) % Half])
        Hash(uuid) == Rolling(CharCodes[uuid], [hi |-> 0, lo |-> 0])
    IN  returned =>
            /\ \A j \in 1..Len(view) :
                   view[j].id.hi \in 0..(Half - 1) /\ view[j].id.lo \in 0..(Half - 1)
            /\ IF Len(used) = 0
               THEN /\ Len(view) = Len(data.keys)
                    /\ \A i \in 1..Len(view) : view[i].id = Hash(data.keys[i])
               ELSE /\ \A i \in 1..Len(used) : view[i].id = Hash(used[i].uuid)
                    /\ \A j \in (Len(used) + 1)..Len(view) :
                           \E k \in 1..Len(data.keys) :
                               /\ \A i \in 1..Len(used) : used[i].uuid # data.keys[k]
                               /\ view[j].id = Hash(data.keys[k])

\* a roster entry and a key the roster lacks, both with uuids of eight
\* characters or more, so that the hash has passed 2^32, one of them with the
\* top bit set
C32_Witness ==
    /\ returned
    /\ Len(used) = 1 /\ Len(view) = 2
    /\ \A j \in 1..2 : view[j].id.hi > 0
    /\ \E j \in 1..2 : view[j].id.hi >= 32768
    /\ \E k \in 1..Len(data.keys) : Len(CharCodes[data.keys[k]]) >= 8
====
